---- MODULE Spec2Model ----
(***************************************************************************)
(* Model of MetOceanApi_withfunctions.py: the buoy pipeline                *)
(*   registry fetch -> per-buoy latest fetch -> left merge -> clean.       *)
(* A DataFrame is [cols, rows]: a set of column names and a sequence of    *)
(* rows, each a function from cols to cells.  A cell is <<>> (NaN / None)  *)
(* or <<v>> (the value v).  A JSON value is tagged with its Python type.   *)
(***************************************************************************)
EXTENDS Integers, Sequences, FiniteSets, TLC

VARIABLES pc, calls, log, top_level_data, mmsi_list, i, latest_data,
          latest_df, df, df_clean, error,
          c_pc, c_df, c_col, c_t, c_once, c_twice

vars == <<pc, calls, log, top_level_data, mmsi_list, i, latest_data,
          latest_df, df, df_clean, error,
          c_pc, c_df, c_col, c_t, c_once, c_twice>>

pipeVars == <<pc, calls, log, top_level_data, mmsi_list, i, latest_data,
              latest_df, df, df_clean, error>>

cleanVars == <<c_pc, c_df, c_col, c_t, c_once, c_twice>>

(* ------------------------------ bounds -------------------------------- *)

\* longest registry the provider returns
MaxBuoys == 2

\* longest dataset handed to clean_data on its own
MaxRows == 2

(* ------------------------- program constants -------------------------- *)

Threshold == 30

endpoint_top == "metoceansitesensors/"

endpoint_latest == "realtime/latest/"

KeyCol == "mmsi"

CleanCol == "waterTemperature_latest"

SuffixTop == "_top"

SuffixLatest == "_latest"

(* ------------------------------ values -------------------------------- *)

NaN == <<>>

Cell(v) == <<v>>

IsNull(c) == c = NaN

\* buoy identifiers the provider knows
IDs == {1, 2}

\* water temperatures a reading may carry: plausible, at the threshold, and
\* the ~50 degree outlier
Temps == {15, 30, 52}

EmptyDF == [cols |-> {}, rows |-> <<>>]

\* JSON values as Python sees them after response.json()
JNull == [t |-> "null"]

JScalar == [t |-> "scalar"]

JList(items) == [t |-> "list", items |-> items]

JDict(d) == [t |-> "dict", d |-> d]

\* the result of a call that may raise
Ok(v) == [err |-> "", val |-> v]

Raise(e) == [err |-> e, val |-> EmptyDF]

(* ------------------------- provider responses ------------------------- *)

\* what one HTTP GET can end in: a transport error, a non-success status
\* (raise_for_status), or a parsed body
Failures == {"ConnectionError", "HTTPError"}

Failed(kind) == [kind |-> kind, body |-> JNull]

Success(body) == [kind |-> "ok", body |-> body]

\* a registry record: identifier, site name, and, when the provider's
\* registry schema has it, a waterTemperature sensor flag
RegistryEntry(id, flag) ==
  IF flag
    THEN [mmsi |-> Cell(id), siteName |-> Cell(id), waterTemperature |-> Cell(1)]
    ELSE [mmsi |-> Cell(id), siteName |-> Cell(id)]

SeqsUpTo(S, n) == UNION {[1..k -> S] : k \in 0..n}

\* the registries the provider may return: any identifiers (repeats
\* included), every record of one schema
Registries ==
  {[k \in 1..Len(ids) |-> RegistryEntry(ids[k], flag)] :
     ids \in SeqsUpTo(IDs, MaxBuoys), flag \in BOOLEAN}

RegistryOutcomes ==
  {Failed(k) : k \in Failures} \cup {Success(JList(r)) : r \in Registries}

\* a latest-reading object: each of mmsi and waterTemperature may be missing,
\* waterTemperature may be JSON null; with both missing the object is {}
ReadingFields(hasId, hasWt) ==
  (IF hasId THEN {"mmsi"} ELSE {}) \cup (IF hasWt THEN {"waterTemperature"} ELSE {})

Reading(hasId, id, hasWt, wt) ==
  [f \in ReadingFields(hasId, hasWt) |-> IF f = "mmsi" THEN Cell(id) ELSE wt]

Readings ==
  {Reading(TRUE, id, TRUE, wt) : id \in IDs, wt \in {NaN} \cup {Cell(t) : t \in Temps}}
    \cup {Reading(TRUE, id, FALSE, NaN) : id \in IDs}
    \cup {Reading(FALSE, 0, TRUE, wt) : wt \in {NaN} \cup {Cell(t) : t \in Temps}}
    \cup {Reading(FALSE, 0, FALSE, NaN)}

LatestOutcomes ==
  {Failed(k) : k \in Failures}
    \cup {Success(JNull), Success(JScalar), Success(JList(<<JScalar>>))}
    \cup {Success(JDict(r)) : r \in Readings}

(* --------------------------- MetOceanAPI ------------------------------ *)

ErrorEntry(endpoint, detail) ==
  [level |-> "ERROR", endpoint |-> endpoint, detail |-> detail]

WarningEntry(mmsi) == [level |-> "WARNING", mmsi |-> mmsi]

InfoEntry(msg) == [level |-> "INFO", msg |-> msg]

\* get_data without raise_for_status: a non-success status goes unnoticed
get_data_NoStatusCheck(endpoint, outcome) ==
  IF outcome.kind \in {"ok", "HTTPError"}
    THEN [ret |-> outcome.body, logs |-> <<>>]
    ELSE [ret |-> JNull, logs |-> <<ErrorEntry(endpoint, outcome.kind)>>]

\* get_data: the value returned and the log entries emitted, for one outcome
\* of requests.get / raise_for_status / json
get_data(endpoint, outcome) ==
  IF outcome.kind = "ok"
    THEN [ret |-> outcome.body, logs |-> <<>>]
    ELSE [ret |-> JNull, logs |-> <<ErrorEntry(endpoint, outcome.kind)>>]

(* ----------------------------- Python --------------------------------- *)

\* bool(x)
Truthy(j) ==
  CASE j.t = "null" -> FALSE
    [] j.t = "scalar" -> TRUE
    [] j.t = "list" -> Len(j.items) > 0
    [] j.t = "dict" -> DOMAIN j.d # {}

\* isinstance(x, dict)
IsDict(j) == j.t = "dict"

\* str(mmsi)
str(n) == ToString(n)

(* ----------------------------- pandas --------------------------------- *)

\* pd.DataFrame(list of dicts): the columns are the union of the keys, a
\* missing key is NaN
DataFrameOfDicts(dicts) ==
  LET cols == UNION {DOMAIN dicts[k] : k \in 1..Len(dicts)}
  IN  [cols |-> cols,
       rows |-> [k \in 1..Len(dicts) |->
                  [c \in cols |-> IF c \in DOMAIN dicts[k] THEN dicts[k][c] ELSE NaN]]]

\* pd.DataFrame(x) for what get_data returns for the registry: None -> empty
DataFrame(j) ==
  IF j.t = "list" THEN DataFrameOfDicts(j.items) ELSE EmptyDF

\* df[column].tolist(); KeyError when the column is missing
ColumnToList(frame, column) ==
  IF column \in frame.cols
    THEN [err |-> "", val |-> [k \in 1..Len(frame.rows) |-> frame.rows[k][column][1]]]
    ELSE [err |-> "KeyError", val |-> <<>>]

\* suffixes applied to every column but the key
MergedName_Always(c, overlap, suffix) == IF c = KeyCol THEN c ELSE c \o suffix

\* the output name of a column of one side of pd.merge: suffixed when the
\* other side has a column of that name, the join key excepted
MergedName(c, overlap, suffix) == IF c \in overlap THEN c \o suffix ELSE c

\* one output row of the merge: the left row's cells, then the right row's
\* (NaN for every right column when there is no match)
MergedRow(l, r, matched, left, right, overlap) ==
  LET lnames == {MergedName(c, overlap, SuffixTop) : c \in left.cols}
      rcols  == right.cols \ {KeyCol}
      out    == lnames \cup {MergedName(c, overlap, SuffixLatest) : c \in rcols}
  IN  [n \in out |->
        IF n \in lnames
          THEN l[CHOOSE c \in left.cols : MergedName(c, overlap, SuffixTop) = n]
          ELSE IF matched
                 THEN r[CHOOSE c \in rcols : MergedName(c, overlap, SuffixLatest) = n]
                 ELSE NaN]

\* the right rows whose key equals the key of a left row, in right order
RECURSIVE Matches(_, _, _)
Matches(key, rrows, k) ==
  IF k > Len(rrows) THEN <<>>
  ELSE (IF rrows[k][KeyCol] = key THEN <<rrows[k]>> ELSE <<>>)
         \o Matches(key, rrows, k + 1)

\* how='left': every left row in left order, once per matching right row,
\* once with NaN when nothing matches
RECURSIVE LeftJoin(_, _, _, _)
LeftJoin(left, right, overlap, k) ==
  IF k > Len(left.rows) THEN <<>>
  ELSE LET l == left.rows[k]
           m == Matches(l[KeyCol], right.rows, 1)
           here == IF m = <<>>
                     THEN <<MergedRow(l, l, FALSE, left, right, overlap)>>
                     ELSE [j \in 1..Len(m) |->
                            MergedRow(l, m[j], TRUE, left, right, overlap)]
       IN  here \o LeftJoin(left, right, overlap, k + 1)

\* pd.merge(left, right, on='mmsi', how='left', suffixes=('_top', '_latest'));
\* KeyError when either frame has no 'mmsi' column
pd_merge(left, right) ==
  IF KeyCol \notin left.cols \/ KeyCol \notin right.cols
    THEN Raise("KeyError")
    ELSE LET overlap == (left.cols \cap right.cols) \ {KeyCol}
             rows == LeftJoin(left, right, overlap, 1)
         IN  Ok([cols |-> {MergedName(c, overlap, SuffixTop) : c \in left.cols}
                            \cup {MergedName(c, overlap, SuffixLatest) :
                                    c \in right.cols \ {KeyCol}},
                 rows |-> rows])

\* a strict comparison
Le_Strict(cell, threshold) == IF IsNull(cell) THEN FALSE ELSE cell[1] < threshold

\* series <= threshold, elementwise: a comparison with NaN is False
Le(cell, threshold) == IF IsNull(cell) THEN FALSE ELSE cell[1] <= threshold

\* df.loc[mask]: the rows whose mask entry is True, in order
RECURSIVE Loc(_, _, _)
Loc(rows, mask, k) ==
  IF k > Len(rows) THEN <<>>
  ELSE (IF mask[k] THEN <<rows[k]>> ELSE <<>>) \o Loc(rows, mask, k + 1)

(* ------------------------ BuoyDataProcessor --------------------------- *)

get_top_level_data(all_buoys) == DataFrame(all_buoys)

\* the test without the truthiness half
Retained_AnyDict(data) == IsDict(data)

\* the test of the loop body of get_latest_data
Retained(data) == Truthy(data) /\ IsDict(data)

\* the return statement of get_latest_data
LatestFrame(latest) ==
  IF Len(latest) > 0 THEN DataFrameOfDicts(latest) ELSE EmptyDF

merge_data(buoys_df, latest) == pd_merge(buoys_df, latest)

\* removes only the first row that fails the comparison
RECURSIVE DropFirst(_, _, _)
DropFirst(rows, mask, k) ==
  IF k > Len(rows) THEN rows
  ELSE IF mask[k] THEN DropFirst(rows, mask, k + 1)
  ELSE SubSeq(rows, 1, k - 1) \o SubSeq(rows, k + 1, Len(rows))

clean_data_DropFirst(frame, column, threshold) ==
  IF column \notin frame.cols
    THEN Raise("KeyError")
    ELSE LET mask == [k \in 1..Len(frame.rows) |->
                       Le(frame.rows[k][column], threshold)]
         IN  Ok([cols |-> frame.cols, rows |-> DropFirst(frame.rows, mask, 1)])

clean_data(frame, column, threshold) ==
  IF column \notin frame.cols
    THEN Raise("KeyError")
    ELSE LET mask == [k \in 1..Len(frame.rows) |->
                       Le(frame.rows[k][column], threshold)]
         IN  Ok([cols |-> frame.cols, rows |-> Loc(frame.rows, mask, 1)])

\* a loop that stops at the first identifier without a valid reading
NextPosition_Break(k, data) ==
  IF Truthy(data) /\ IsDict(data) THEN k + 1 ELSE MaxBuoys + 2

\* `for mmsi in mmsi_list`: the position after the one just handled, whatever
\* its fetch returned
NextPosition(k, data) == k + 1

(* ------------------------- the pipeline script ------------------------ *)

NoError == <<>>

Call(endpoint, outcome, ret) ==
  [endpoint |-> endpoint, outcome |-> outcome, ret |-> ret]

CleanIdle ==
  /\ c_pc = "off"
  /\ c_df = EmptyDF
  /\ c_col = CleanCol
  /\ c_t = Threshold
  /\ c_once = Ok(EmptyDF)
  /\ c_twice = Ok(EmptyDF)

PipelineIdle ==
  /\ pc = "start"
  /\ calls = <<>>
  /\ log = <<InfoEntry("Met Ocean Api - Starting")>>
  /\ top_level_data = EmptyDF
  /\ mmsi_list = <<>>
  /\ i = 1
  /\ latest_data = <<>>
  /\ latest_df = EmptyDF
  /\ df = EmptyDF
  /\ df_clean = EmptyDF
  /\ error = NoError

Init == PipelineIdle /\ CleanIdle

\* top_level_data = processor.get_top_level_data(endpoint_top), and the info
\* entry that follows it
FetchRegistry ==
  /\ pc = "start"
  /\ \E outcome \in RegistryOutcomes :
       LET r == get_data(endpoint_top, outcome)
       IN  /\ calls' = Append(calls, Call(endpoint_top, outcome, r.ret))
           /\ top_level_data' = get_top_level_data(r.ret)
           /\ log' = log \o r.logs \o <<InfoEntry("Received list of mmsi's")>>
  /\ pc' = "registry"
  /\ UNCHANGED <<mmsi_list, i, latest_data, latest_df, df, df_clean, error>>
  /\ UNCHANGED cleanVars

\* top_level_data['mmsi'].tolist(), the argument of get_latest_data, and the
\* entry into its loop
StartLatest ==
  /\ pc = "registry"
  /\ LET ids == ColumnToList(top_level_data, KeyCol)
     IN  IF ids.err # ""
           THEN /\ pc' = "crashed"
                /\ error' = <<ids.err, 117>>
                /\ UNCHANGED <<mmsi_list, i, latest_data>>
           ELSE /\ pc' = "loop"
                /\ mmsi_list' = ids.val
                /\ i' = 1
                /\ latest_data' = <<>>
                /\ UNCHANGED error
  /\ UNCHANGED <<calls, log, top_level_data, latest_df, df, df_clean>>
  /\ UNCHANGED cleanVars

\* one iteration of the loop of get_latest_data
FetchLatest ==
  /\ pc = "loop"
  /\ i <= Len(mmsi_list)
  /\ \E outcome \in LatestOutcomes :
       LET mmsi == mmsi_list[i]
           endpoint == endpoint_latest \o str(mmsi)
           r == get_data(endpoint, outcome)
       IN  /\ calls' = Append(calls, Call(endpoint, outcome, r.ret))
           /\ IF Retained(r.ret)
                THEN /\ latest_data' = Append(latest_data, r.ret.d)
                     /\ log' = log \o r.logs
                ELSE /\ latest_data' = latest_data
                     /\ log' = log \o r.logs \o <<WarningEntry(mmsi)>>
           /\ i' = NextPosition(i, r.ret)
  /\ UNCHANGED <<pc, top_level_data, mmsi_list, latest_df, df, df_clean, error>>
  /\ UNCHANGED cleanVars

\* the return of get_latest_data
ReturnLatest ==
  /\ pc = "loop"
  /\ i > Len(mmsi_list)
  /\ latest_df' = LatestFrame(latest_data)
  /\ pc' = "fetched"
  /\ UNCHANGED <<calls, log, top_level_data, mmsi_list, i, latest_data, df,
                 df_clean, error>>
  /\ UNCHANGED cleanVars

\* df = processor.merge_data(top_level_data, latest_data), and the info
\* entries that follow it
Merge ==
  /\ pc = "fetched"
  /\ LET m == merge_data(top_level_data, latest_df)
     IN  IF m.err # ""
           THEN /\ pc' = "crashed"
                /\ error' = <<m.err, 120>>
                /\ UNCHANGED <<df, log>>
           ELSE /\ pc' = "merged"
                /\ df' = m.val
                /\ log' = Append(log, InfoEntry("merged successfully"))
                /\ UNCHANGED error
  /\ UNCHANGED <<calls, top_level_data, mmsi_list, i, latest_data, latest_df,
                 df_clean>>
  /\ UNCHANGED cleanVars

\* df_clean = processor.clean_data(df, 'waterTemperature_latest', 30.0)
Clean ==
  /\ pc = "merged"
  /\ LET c == clean_data(df, CleanCol, Threshold)
     IN  IF c.err # ""
           THEN /\ pc' = "crashed"
                /\ error' = <<c.err, 125>>
                /\ UNCHANGED df_clean
           ELSE /\ pc' = "cleaned"
                /\ df_clean' = c.val
                /\ UNCHANGED error
  /\ UNCHANGED <<calls, log, top_level_data, mmsi_list, i, latest_data,
                 latest_df, df>>
  /\ UNCHANGED cleanVars

\* the hand-over to plot_water_temp (not modelled) and the closing entries
Finish ==
  /\ pc = "cleaned"
  /\ pc' = "done"
  /\ log' = log \o <<InfoEntry("Final dataset"), InfoEntry("completed successfully")>>
  /\ UNCHANGED <<calls, top_level_data, mmsi_list, i, latest_data, latest_df,
                 df, df_clean, error>>
  /\ UNCHANGED cleanVars

Next ==
  \/ FetchRegistry
  \/ StartLatest
  \/ FetchLatest
  \/ ReturnLatest
  \/ Merge
  \/ Clean
  \/ Finish

Spec == Init /\ [][Next]_vars

(* --------------------- clean_data on its own -------------------------- *)

\* datasets, columns and thresholds clean_data is applied to
CleanCols == {"waterTemperature_latest", "airTemperature", "salinity"}

CleanThresholds == {15, Threshold}

CleanRows ==
  [mmsi : {Cell(id) : id \in IDs},
   waterTemperature_latest : {NaN} \cup {Cell(t) : t \in Temps},
   airTemperature : {NaN, Cell(15)}]

CleanFrames ==
  {[cols |-> {"mmsi", "waterTemperature_latest", "airTemperature"}, rows |-> r] :
     r \in SeqsUpTo(CleanRows, MaxRows)}

CleanInit ==
  /\ PipelineIdle
  /\ c_pc = "input"
  /\ c_df \in CleanFrames
  /\ c_col \in CleanCols
  /\ c_t \in CleanThresholds
  /\ c_once = Ok(EmptyDF)
  /\ c_twice = Ok(EmptyDF)

\* clean_data(df, column, t)
CleanOnce ==
  /\ c_pc = "input"
  /\ c_once' = clean_data(c_df, c_col, c_t)
  /\ c_pc' = "once"
  /\ UNCHANGED <<c_df, c_col, c_t, c_twice>>
  /\ UNCHANGED pipeVars

\* clean_data(clean_data(df, column, t), column, t): an exception of the
\* inner call is the exception of the whole expression
CleanTwice ==
  /\ c_pc = "once"
  /\ c_twice' = IF c_once.err # "" THEN c_once
                ELSE clean_data(c_once.val, c_col, c_t)
  /\ c_pc' = "twice"
  /\ UNCHANGED <<c_df, c_col, c_t, c_once>>
  /\ UNCHANGED pipeVars

CleanNext == CleanOnce \/ CleanTwice

SpecClean == CleanInit /\ [][CleanNext]_vars

(* ------------------------------ claims -------------------------------- *)

\* the calls of the loop of get_latest_data, in order (the first call of a
\* run is the registry request)
LatestCalls == SubSeq(calls, 2, Len(calls))

Succeeded(c) == c.outcome.kind = "ok"

DictShaped(c) == Succeeded(c) /\ c.outcome.body.t = "dict"

NonEmptyDict(c) == DictShaped(c) /\ DOMAIN c.outcome.body.d # {}

Bodies(cs) == [k \in 1..Len(cs) |-> cs[k].outcome.body.d]

\* the identifiers the warnings of the log name, in order
WarnedIds ==
  LET w == SelectSeq(log, LAMBDA e : e.level = "WARNING")
  IN  [k \in 1..Len(w) |-> w[k].mmsi]

\* the requested identifiers whose response fails Test, in request order
SkippedIds(Test(_)) ==
  LET marked == [k \in 1..Len(LatestCalls) |->
                   [id |-> mmsi_list[k], skip |-> ~Test(LatestCalls[k])]]
      s == SelectSeq(marked, LAMBDA m : m.skip)
  IN  [k \in 1..Len(s) |-> s[k].id]

\* C1 as stated: a reading is retained exactly when the call succeeded and
\* the response is dictionary-shaped, and the identifier is skipped with one
\* warning naming it exactly otherwise, for every response.
C1_AsStated ==
  /\ latest_data = Bodies(SelectSeq(LatestCalls, DictShaped))
  /\ WarnedIds = SkippedIds(DictShaped)

\* C1 amended: a reading is retained exactly when the call succeeded and the
\* response is a non-empty dictionary; the identifier is skipped (no entry,
\* one warning naming it) exactly when the call failed or the response is
\* not a dictionary or is the empty dictionary; the loop goes on to the next
\* identifier after every response.
C1_RetainedIffNonEmptyDict ==
  /\ latest_data = Bodies(SelectSeq(LatestCalls, NonEmptyDict))
  /\ WarnedIds = SkippedIds(NonEmptyDict)
  /\ pc = "loop" => Len(LatestCalls) = i - 1

\* an empty dictionary was skipped with a warning and a non-empty one kept
C1_Witness ==
  /\ pc = "fetched"
  /\ \E k \in 1..Len(LatestCalls) :
       /\ DictShaped(LatestCalls[k])
       /\ ~NonEmptyDict(LatestCalls[k])
       /\ \E n \in 1..Len(WarnedIds) : WarnedIds[n] = mmsi_list[k]
  /\ Len(latest_data) = 1

MergeAttempted == pc \in {"merged", "cleaned", "done"} \/ (pc = "crashed" /\ error[2] >= 120)

MergeDone == pc \in {"merged", "cleaned", "done"} \/ (pc = "crashed" /\ error[2] > 120)

\* the columns of the reconciled data that come from the readings
ReadingColumns == df.cols \ {MergedName(c, (top_level_data.cols \cap latest_df.cols) \ {KeyCol}, SuffixTop) : c \in top_level_data.cols}

\* C2: for a non-empty registry whose every latest fetch is skipped, the
\* merge completes with one row per registry row, all reading fields null,
\* and clean_data on it returns an empty dataset.
C2_MergeOfNoReadings ==
  (MergeAttempted /\ Len(top_level_data.rows) > 0 /\ latest_data = <<>>)
    => /\ pc # "crashed"
       /\ Len(df.rows) = Len(top_level_data.rows)
       /\ \A k \in 1..Len(df.rows) : \A c \in ReadingColumns : IsNull(df.rows[k][c])
       /\ pc \in {"cleaned", "done"} => df_clean.rows = <<>>

\* C3: when the registry fetch fails or returns zero devices the pipeline
\* does not halt with an error: no latest fetch is issued and the run ends
\* with an empty output dataset.
C3_EmptyRegistryCompletes ==
  (pc # "start" /\ top_level_data.rows = <<>>)
    => /\ pc # "crashed"
       /\ Len(calls) = 1
       /\ mmsi_list = <<>>
       /\ pc = "done" => df_clean.rows = <<>>

\* C4: every get_data call returns the parsed data when it succeeds, and
\* None when the transport fails or the status is not a success; each failed
\* call leaves exactly one ERROR entry, with its endpoint and the error.
C4_GetDataFailureIsNone ==
  LET failed == SelectSeq(calls, LAMBDA c : ~Succeeded(c))
      errs   == SelectSeq(log, LAMBDA e : e.level = "ERROR")
  IN  /\ \A k \in 1..Len(calls) :
           calls[k].ret = IF Succeeded(calls[k]) THEN calls[k].outcome.body ELSE JNull
      /\ Len(errs) = Len(failed)
      /\ \A k \in 1..Len(errs) :
           /\ errs[k].endpoint = failed[k].endpoint
           /\ errs[k].detail = failed[k].outcome.kind

\* a run with a parsed registry, a transport error and a non-success status
C4_Witness ==
  /\ Len(calls) = 3
  /\ Succeeded(calls[1]) /\ calls[1].ret = calls[1].outcome.body
  /\ \E k \in 2..3 : calls[k].outcome.kind = "ConnectionError" /\ calls[k].ret = JNull
  /\ \E k \in 2..3 : calls[k].outcome.kind = "HTTPError" /\ calls[k].ret = JNull
  /\ Len(SelectSeq(log, LAMBDA e : e.level = "ERROR")) = 2

Unique(seq) == \A a, b \in 1..Len(seq) : seq[a] = seq[b] => a = b

\* the identifiers carried by the collected readings, in collection order
\* (NaN for a reading without one)
ReadingIds == [k \in 1..Len(latest_df.rows) |-> latest_df.rows[k][KeyCol]]

AllCarryId(dicts) == \A k \in 1..Len(dicts) : KeyCol \in DOMAIN dicts[k]

DictIds(dicts) == [k \in 1..Len(dicts) |-> dicts[k][KeyCol]]

\* C5: given unique identifiers in the registry and in the collected
\* readings, merge_data returns exactly one record per registry entry, the
\* identifiers of the output being those of the registry in the same order;
\* an entry without a matching reading appears with null reading fields.
C5_MergeOnePerEntryInOrder ==
  (/\ MergeAttempted
   /\ Unique(mmsi_list)
   /\ AllCarryId(latest_data)
   /\ Unique(DictIds(latest_data)))
    => /\ pc # "crashed" \/ error[2] > 120
       /\ [k \in 1..Len(df.rows) |-> df.rows[k][KeyCol][1]] = mmsi_list
       /\ \A k \in 1..Len(df.rows) :
            (\A n \in 1..Len(latest_data) : latest_data[n][KeyCol] # df.rows[k][KeyCol])
              => \A c \in ReadingColumns : IsNull(df.rows[k][c])

\* C6: for a registry with unique identifiers and any responses to the
\* per-device fetches, at most one reading per identifier is kept and the
\* reconciled output has exactly as many rows as the registry.
C6_JoinNeverDuplicates ==
  (MergeDone /\ Unique(mmsi_list))
    => /\ Unique(ReadingIds)
       /\ Len(df.rows) = Len(top_level_data.rows)

\* C8: a run's requests are the registry request, then one latest request
\* per identifier of the registry's list, in list order, none repeated; once
\* the loop is left every identifier has been requested, whatever the
\* earlier responses were.
C8_RequestTrace ==
  /\ pc = "start" <=> calls = <<>>
  /\ calls # <<>> => calls[1].endpoint = endpoint_top
  /\ Len(LatestCalls) <= Len(mmsi_list)
  /\ \A k \in 1..Len(LatestCalls) :
       LatestCalls[k].endpoint = endpoint_latest \o str(mmsi_list[k])
  /\ (pc \notin {"start", "registry"} /\ Succeeded(calls[1])
        /\ calls[1].outcome.body.items # <<>>)
       => mmsi_list = [k \in 1..Len(calls[1].outcome.body.items) |->
                         calls[1].outcome.body.items[k].mmsi[1]]
  /\ MergeAttempted \/ pc = "fetched" => Len(LatestCalls) = Len(mmsi_list)

\* the first of two identifiers failed and the second was still requested
C8_Witness ==
  /\ pc = "fetched"
  /\ Len(mmsi_list) = 2
  /\ ~Succeeded(calls[2])
  /\ calls[3].endpoint = endpoint_latest \o str(mmsi_list[2])

\* C10: in the reconciled data 'mmsi' appears once; a field of both sources
\* appears as <field>_top and <field>_latest and not unsuffixed; a field of
\* one source keeps its name; there is no other column; and the column the
\* pipeline cleans on, 'waterTemperature_latest', exists exactly when both
\* sources carry 'waterTemperature'.
C10_ColumnsUnambiguous ==
  MergeDone =>
    LET T == top_level_data.cols
        L == latest_df.cols
        both == (T \cap L) \ {KeyCol}
    IN  /\ KeyCol \in df.cols
        /\ KeyCol \o SuffixTop \notin df.cols
        /\ KeyCol \o SuffixLatest \notin df.cols
        /\ \A f \in both :
             /\ f \o SuffixTop \in df.cols
             /\ f \o SuffixLatest \in df.cols
             /\ f \notin df.cols
        /\ \A f \in (T \cup L) \ both :
             /\ f \in df.cols
             /\ f \o SuffixTop \notin df.cols
             /\ f \o SuffixLatest \notin df.cols
        /\ Cardinality(df.cols) = Cardinality(T \cup L) + Cardinality(both)
        /\ CleanCol \in df.cols
             <=> ("waterTemperature" \in T /\ "waterTemperature" \in L)
        /\ pc = "crashed" => CleanCol \notin df.cols
        /\ pc \in {"cleaned", "done"} => CleanCol \in df.cols

\* a merge where waterTemperature is in both sources and siteName in one
C10_Witness ==
  /\ pc = "merged"
  /\ {"waterTemperature_top", "waterTemperature_latest", "siteName"} \subseteq df.cols

\* C7: clean_data returns exactly the rows whose value in the column is not
\* null and is <= the threshold (equal is kept), unchanged and in their
\* original order, and a null in the column raises nothing.
C7_CleanKeepsExactlyValid ==
  (c_pc \in {"once", "twice"} /\ c_col \in c_df.cols)
    => /\ c_once.err = ""
       /\ c_once.val.cols = c_df.cols
       /\ c_once.val.rows =
            SelectSeq(c_df.rows,
                      LAMBDA r : r[c_col] # NaN /\ r[c_col][1] <= c_t)
       /\ \A k \in 1..Len(c_once.val.rows) :
            /\ ~IsNull(c_once.val.rows[k][c_col])
            /\ ~(c_once.val.rows[k][c_col][1] > c_t)

\* a null row dropped and a row equal to the threshold kept
C7_Witness ==
  /\ c_pc = "once"
  /\ c_col = "waterTemperature_latest"
  /\ Len(c_df.rows) = 2
  /\ IsNull(c_df.rows[1][c_col])
  /\ c_df.rows[2][c_col] = Cell(c_t)
  /\ c_once.val.rows = <<c_df.rows[2]>>

\* C9: clean_data is idempotent: cleaning the cleaned dataset again, same
\* column and threshold, gives the cleaned dataset.
C9_CleanIdempotent == c_pc = "twice" => c_twice = c_once

\* a second cleaning of a dataset the first cleaning had shortened
C9_Witness ==
  /\ c_pc = "twice"
  /\ c_once.err = ""
  /\ Len(c_once.val.rows) = 1
  /\ Len(c_df.rows) = 2

====
